---- MODULE Spec2Model ----
(***************************************************************************)
(* Conversation orchestration layer of the voice-to-code server:          *)
(*   src/agents/codeGen.ts   (generation session manager, lines 1-227,    *)
(*                            relay / phase state machine, lines 229-1034)*)
(*   src/utils/openaiCodegen.ts (generation backend, runOpenAICodegen)     *)
(*                                                                         *)
(* Text is a sequence of tokens.  A token stands for a literal piece of   *)
(* the text: one backtick, the word yaml, a newline, a blank, a key word, *)
(* a colon, ...  The string operations of the source (includes, match,    *)
(* trim, split, toLowerCase, +) are computed on these sequences.          *)
(***************************************************************************)
EXTENDS Integers, Sequences, FiniteSets, TLC

VARIABLES
    conversationState,  \* codeGen.ts:258  the global ConversationState
    activeGenerations,  \* codeGen.ts:28   Map sessionId -> session object
    gens,               \* the startCodeGeneration calls in progress and the
                        \* session objects they created (codeGen.ts:114-118)
    turn,               \* position of the synchronous code that is running
    browserWs,          \* codeGen.ts:923  current client socket, 0 = null
    wsState,            \* readyState of each client socket
    agentState,         \* state of the agent socket opened for each client
    sent,               \* messages handed to a socket by the last step
    last,               \* the handler the last step ran and the branch it took
    fnIn,               \* input of the function under study (function specs)
    fnOut,              \* its result
    disk,               \* session identifiers whose directory generated/<id>
                        \* exists (codeGen.ts:84, openaiCodegen.ts:406-413)
    now                 \* Date.now() (codeGen.ts:116, 215)

vars == << conversationState, activeGenerations, gens, turn, browserWs,
           wsState, agentState, sent, last, fnIn, fnOut, disk, now >>

(***************************************************************************)
(* Tokens                                                                  *)
(***************************************************************************)
\* one backtick character
BT == "backtick"
NL == "\n"
SP == " "
COLON == ":"
DASH == "-"
YAMLWORD == "yaml"
HOWDOES == "How does that"

FENCE == << BT, BT, BT >>
OPENMARK == FENCE \o << YAMLWORD >>

RequiredKeys ==
    { "project_name", "project_description", "users", "goal", "features",
      "tech_stack", "ui_style" }

KeyOrder ==
    << "project_name", "project_description", "users", "goal", "features",
       "tech_stack", "ui_style" >>

Key(k) == << k, COLON >>

\* the value JavaScript calls null / undefined
Null == << "null" >>

Truthy(s) == s # Null /\ s # << >>

Whitespace == { NL, SP }

Min(S) == CHOOSE m \in S : \A n \in S : m <= n

(***************************************************************************)
(* String operations                                                       *)
(***************************************************************************)
StartsAt(text, pat, i) ==
    /\ i >= 1
    /\ i + Len(pat) - 1 <= Len(text)
    /\ \A k \in 1..Len(pat) : text[i + k - 1] = pat[k]

\* String.prototype.includes
Includes(text, pat) == \E i \in 1..Len(text) : StartsAt(text, pat, i)

\* first index >= from at which pat occurs, 0 if none (indexOf)
FirstAt(text, pat, from) ==
    LET S == { i \in from..Len(text) : StartsAt(text, pat, i) }
    IN  IF S = {} THEN 0 ELSE Min(S)

\* String.prototype.trim
Trim(text) ==
    LET keep == { i \in 1..Len(text) : text[i] \notin Whitespace }
    IN  IF keep = {} THEN << >>
        ELSE SubSeq(text, Min(keep), CHOOSE m \in keep : \A n \in keep : n <= m)

\* String.prototype.toLowerCase, token by token
LowerTok(t) ==
    CASE t = "Yes" -> "yes"
      [] t = "Great" -> "great"
      [] t = "Perfect" -> "perfect"
      [] t = "Ready" -> "ready"
      [] OTHER -> t

ToLower(text) == [ i \in 1..Len(text) |-> LowerTok(text[i]) ]

\* JoinNl without the fragment
JoinNl_DropsFragment(a, b) == a

\* a + newline + b (codeGen.ts:723, 739)
JoinNl(a, b) == a \o << NL >> \o b

(***************************************************************************)
(* extractYamlFromText, codeGen.ts:265-345                                 *)
(***************************************************************************)
\* group 1 of  open([\s\S]*?)close : leftmost open that has a close after
\* it, lazily up to the first such close; << >> when there is no match
\* (the code treats an empty group like no match: "match && match[1]")
LazyGroup(text, open, close) ==
    LET i == FirstAt(text, open, 1)
        j == IF i = 0 THEN 0 ELSE FirstAt(text, close, i + Len(open))
    IN  IF i = 0 \/ j = 0 THEN << >>
        ELSE SubSeq(text, i + Len(open), j - 1)

\* group 1 of  /yaml\n([\s\S]*?)$/m : lazily up to the first end of line
LazyToEol(text, open) ==
    LET i == FirstAt(text, open, 1)
        s == i + Len(open)
        e == FirstAt(text, << NL >>, s)
    IN  IF i = 0 THEN << >>
        ELSE IF e = 0 THEN SubSeq(text, s, Len(text))
        ELSE SubSeq(text, s, e - 1)

\* codeGen.ts:267-272, each pattern's group 1
PatternGroup(text, p) ==
    CASE p = 1 -> LazyGroup(text, OPENMARK \o << NL >>, << NL >> \o FENCE)
      [] p = 2 -> LazyGroup(text, OPENMARK, FENCE)
      [] p = 3 -> LazyGroup(text, FENCE \o << NL >>, << NL >> \o FENCE)
      [] p = 4 -> LazyToEol(text, << YAMLWORD, NL >>)

\* codeGen.ts:280-289
HasAllFields(yamlContent) ==
    \A k \in RequiredKeys : Includes(yamlContent, Key(k))

\* codeGen.ts:314
FallbackKeys == { "project_name", "features", "tech_stack", "users", "goal" }

\* text.split(newline): a line is named by the position of its first
\* character; the empty line after a final newline starts at Len(text) + 1
SplitStarts(text) == { 1 } \cup { p + 1 : p \in { q \in 1..Len(text) : text[q] = NL } }
\* position of the newline that ends the line starting at p
LineEnd(text, p) ==
    LET e == FirstAt(text, << NL >>, p)
    IN  IF e = 0 THEN Len(text) + 1 ELSE e
Line(text, p) == SubSeq(text, p, LineEnd(text, p) - 1)

\* codeGen.ts:313-341
FallbackScan(text) ==
    IF ~ \A k \in FallbackKeys : Includes(text, Key(k)) THEN Null
    ELSE
      LET lines == SplitStarts(text)
          starts == { p \in lines : Includes(Line(text, p), Key("project_name")) }
          yamlStart == IF starts = {} THEN 0 ELSE Min(starts)
          marks == { p \in lines :
                       /\ yamlStart # 0 /\ p >= yamlStart
                       /\ \/ Includes(Line(text, p), Key("ui_style"))
                          \/ Includes(Line(text, p), Key("tech_stack")) }
          ends == IF marks = {} THEN {}
                  ELSE { p \in lines :
                           /\ p >= Min(marks)
                           /\ \/ Trim(Line(text, p)) = << >>
                              \/ Includes(Line(text, p), << HOWDOES >>)
                              \/ Includes(Line(text, p), FENCE) }
          \* lines.slice(yamlStart, yamlEnd).join(newline): up to the newline
          \* before line yamlEnd, or to the end of the text
          stop == IF ends = {} THEN Len(text) ELSE Min(ends) - 2
      IN  IF yamlStart = 0 \/ marks = {} THEN Null
          ELSE Trim(SubSeq(text, yamlStart, stop))

extractYamlFromText(text) ==
    LET group == [ p \in 1..4 |-> PatternGroup(text, p) ]
        hits == { p \in 1..4 :
                    group[p] # << >> /\ HasAllFields(Trim(group[p])) }
    IN  IF hits # {} THEN Trim(group[Min(hits)])
        ELSE FallbackScan(text)

(***************************************************************************)
(* Texts of the model                                                      *)
(***************************************************************************)
RECURSIVE BodyFrom(_, _, _)
\* the lines "key: x" of the keys of K, in template order, joined by sep
BodyFrom(K, n, sep) ==
    IF n > Len(KeyOrder) THEN << >>
    ELSE LET rest == BodyFrom(K, n + 1, sep)
         IN  IF KeyOrder[n] \notin K THEN rest
             ELSE Key(KeyOrder[n]) \o << "x" >>
                    \o (IF rest = << >> THEN << >> ELSE sep \o rest)

\* the template of the system prompt, codeGen.ts:606-629
FullBody == BodyFrom(RequiredKeys, 1, << NL >>)

\* a complete fenced block in one message
FencedBlock == OPENMARK \o << NL >> \o FullBody \o << NL >> \o FENCE

\* keys without fences, an empty line after tech_stack
GappedBare ==
    Key("project_name") \o << "x", NL >> \o Key("tech_stack")
      \o << "x", NL, NL >> \o Key("users") \o << "x", NL >> \o Key("goal")
      \o << "x", NL >> \o Key("features") \o << "x" >>

\* a moving-on phrase followed by a complete fenced block
GreatFenced == << "Great", "!", NL >> \o FencedBlock

\* prose with a list item and no key and no fence
ListItem == << "x", NL, DASH, SP, "x" >>

AssistantMessages ==
    { FencedBlock, << "Great", "!" >>, FENCE, << "x" >>, GappedBare,
      GreatFenced, ListItem }

UserMessages == { << "Yes" >>, << "hmm" >> }

\* the assistant texts of the reconnection study: a complete specification
\* without fences, and small talk
ReconnectAssistant == { FullBody, << "x" >> }

\* longest yamlBuffer the model follows
MaxBufLen == 40

RECURSIVE GrowBuffers(_)
GrowBuffers(B) ==
    LET more == B \cup { b \o << NL >> \o m : b \in B, m \in AssistantMessages }
        kept == { b \in more : Len(b) <= MaxBufLen }
    IN  IF kept = B THEN B ELSE GrowBuffers(kept)

\* the values yamlBuffer can take with these messages
ModelBuffers ==
    GrowBuffers({ m \in AssistantMessages : Includes(m, OPENMARK) })

\* extractYamlFromText on the texts the handler can hand to it in this
\* model, evaluated once
extractTable ==
    [ t \in AssistantMessages \cup ReconnectAssistant
              \cup { b \o << NL >> \o m : b \in ModelBuffers,
                                          m \in AssistantMessages }
        |-> extractYamlFromText(t) ]

Extract(text) ==
    IF text \in DOMAIN extractTable THEN extractTable[text]
    ELSE extractYamlFromText(text)

(***************************************************************************)
(* Relay and phase state machine: agentWs.on('message'), codeGen.ts:656-891 *)
(***************************************************************************)
\* tokens made of word characters only (\w+)
IsWord(t) ==
    t \in RequiredKeys \cup { YAMLWORD, "x", "yes", "Yes", "great", "Great",
                              "perfect", "Perfect", "ready", "Ready", "hmm" }

\* positions at which a line starts (^ under the m flag)
LineStarts(text) == { p \in 1..Len(text) : p = 1 \/ text[p - 1] = NL }

\* position after the longest run of whitespace starting at p (\s*)
SkipWs(text, p) ==
    LET stop == { q \in p..Len(text) : text[q] \notin Whitespace }
    IN  IF stop = {} THEN Len(text) + 1 ELSE Min(stop)

\* /^\s*-\s+/m , codeGen.ts:695
MatchesListItem(text) ==
    \E p \in LineStarts(text) :
        LET q == SkipWs(text, p)
        IN  /\ q + 1 <= Len(text)
            /\ text[q] = DASH
            /\ text[q + 1] \in Whitespace

\* /^\s*\w+:\s*.*$/m , codeGen.ts:696
MatchesKeyValue(text) ==
    \E p \in LineStarts(text) :
        LET q == SkipWs(text, p)
        IN  /\ q + 1 <= Len(text)
            /\ IsWord(text[q])
            /\ text[q + 1] = COLON

\* hasYamlContent without the two patterns of codeGen.ts:695-696
hasYamlContent_MarkerAndKeysOnly(content) ==
    \/ Includes(content, OPENMARK)
    \/ \E k \in RequiredKeys : Includes(content, Key(k))

\* codeGen.ts:687-696
hasYamlContent(content) ==
    \/ Includes(content, OPENMARK)
    \/ \E k \in RequiredKeys : Includes(content, Key(k))
    \/ MatchesListItem(content)
    \/ MatchesKeyValue(content)

\* codeGen.ts:743-752
movingOnPhrases ==
    { << "would you like to edit" >>, << "is it ready" >>,
      << "starting code generation" >>, << "great", "!" >>,
      << "perfect", "!" >>, << "let me know" >>, << "you're welcome" >>,
      << "if you're ready" >> }

\* IsMovingOn without the toLowerCase() of codeGen.ts:755
IsMovingOn_CaseSensitive(content) ==
    \E phrase \in movingOnPhrases : Includes(content, phrase)

\* codeGen.ts:754-756
IsMovingOn(content) ==
    \E phrase \in movingOnPhrases : Includes(ToLower(content), phrase)

\* codeGen.ts:349-376
approvalPhrases ==
    { << "looks", SP, "good" >>, << "that", SP, "looks", SP, "good" >>,
      << "yes" >>, << "perfect" >>, << "great" >>, << "awesome" >>,
      << "i", SP, "like", SP, "that" >>, << "that", SP, "works" >>,
      << "let's", SP, "build" >>, << "let's", SP, "go" >>, << "ready" >>,
      << "is", SP, "ready" >>, << "it's", SP, "ready" >>,
      << "the", SP, "prompt", SP, "is", SP, "ready" >>,
      << "prompt", SP, "is", SP, "ready" >>, << "approved" >>,
      << "correct" >>, << "that's", SP, "right" >>,
      << "sounds", SP, "good" >>, << "good", SP, "to", SP, "go" >>,
      << "let's", SP, "do", SP, "it" >>, << "let's", SP, "start" >>,
      << "move", SP, "on" >>, << "next", SP, "step" >>, << "continue" >>,
      << "proceed" >> }

\* codeGen.ts:348-390
detectYamlApproval(userMessage) ==
    LET lowerMessage == Trim(ToLower(userMessage))
    IN  \E phrase \in approvalPhrases : Includes(lowerMessage, phrase)

\* codeGen.ts:728-736, 762-771, 775-781: what the handler does with the
\* result of an extraction; buffer is the value yamlBuffer takes afterwards
ApplyExtraction(cs, yamlContent, buffer) ==
    IF Truthy(yamlContent)
    THEN [ cs EXCEPT !.lastYamlPrompt = yamlContent,
                     !.phase = "prompt_review",
                     !.yamlBuffer = buffer ]
    ELSE [ cs EXCEPT !.yamlBuffer = buffer ]

\* codeGen.ts:716-783: which branch of the assistant tracking a message
\* takes
AssistantBranch(cs, content) ==
    IF Includes(content, OPENMARK) THEN "open"
    ELSE IF Truthy(cs.yamlBuffer) /\ Includes(content, FENCE) THEN "close"
    ELSE IF Truthy(cs.yamlBuffer)
    THEN (IF IsMovingOn(content) THEN "force" ELSE "append")
    ELSE "single"

\* codeGen.ts:716-783: the assistant branch of the message handler.
\* cs is the conversation state after the message; extracted is the text
\* handed to extractYamlFromText (Null when it is not called)
TrackAssistant(cs, content) ==
    LET branch == AssistantBranch(cs, content)
        buf == JoinNl(cs.yamlBuffer, content)
    IN  CASE branch = "open" ->
               [ cs |-> [ cs EXCEPT !.yamlBuffer = content ],
                 extracted |-> Null ]
          [] branch \in { "close", "force" } ->
               [ cs |-> ApplyExtraction(cs, Extract(buf), Null),
                 extracted |-> buf ]
          [] branch = "append" ->
               [ cs |-> [ cs EXCEPT !.yamlBuffer = buf ], extracted |-> Null ]
          [] branch = "single" ->
               [ cs |-> ApplyExtraction(cs, Extract(content), cs.yamlBuffer),
                 extracted |-> content ]

(***************************************************************************)
(* State                                                                   *)
(***************************************************************************)
\* client connections followed at the same time
MaxConns == 1

\* generation sessions followed at the same time
MaxGens == 2

Conns == 1..MaxConns

\* client sockets the state has room for; the server as a whole uses the
\* first MaxConns of them, the reconnection study all of them
MaxSockets == 2

Sockets == 1..MaxSockets
GenSlots == 1..MaxGens

\* browserWs = null
NoSocket == 0

\* any client socket that is closed and has no event left to deliver; a
\* closed socket never opens again, so these need not be told apart
ClosedSocket == MaxSockets + 1

\* codeGen.ts:258
InitialConversationState ==
    [ phase |-> "ideation", lastYamlPrompt |-> Null, sessionId |-> 0,
      yamlBuffer |-> Null ]

EmptyMap == [ s \in {} |-> 0 ]

\* no startCodeGeneration call and no session object in this slot
NoGen ==
    [ sid |-> 0, yamlPrompt |-> << >>, status |-> "none", startTime |-> 0,
      previewUrl |-> FALSE, repoPath |-> FALSE, ws |-> 0, owner |-> 0,
      pc |-> "free" ]

\* no synchronous code is running: the event loop takes the next event
Idle == [ at |-> "idle", conn |-> 0, gen |-> 0 ]

\* process.exit was called: the event loop takes no event any more
Exited == [ at |-> "exited", conn |-> 0, gen |-> 0 ]

\* the handler and the branch of it that the last step ran
Ran(kind, branch) == [ kind |-> kind, branch |-> branch ]

InitSystem ==
    /\ conversationState = InitialConversationState
    /\ activeGenerations = EmptyMap
    /\ gens = [ g \in GenSlots |-> NoGen ]
    /\ turn = Idle
    /\ browserWs = NoSocket
    /\ wsState = [ c \in 1..ClosedSocket |->
                     IF c = ClosedSocket THEN "closed" ELSE "none" ]
    /\ agentState = [ c \in Sockets |-> "none" ]
    /\ sent = << >>
    /\ last = Ran("none", "")
    /\ disk = {}
    /\ now = 0

sysVars == << conversationState, activeGenerations, gens, turn, browserWs,
              wsState, agentState, sent, last, disk, now >>

(***************************************************************************)
(* Generation session manager, codeGen.ts:18-227                           *)
(***************************************************************************)
MapSet(m, k, v) == [ s \in DOMAIN m \cup { k } |-> IF s = k THEN v ELSE m[s] ]
MapDelete(m, k) == [ s \in DOMAIN m \ { k } |-> m[s] ]

\* validateYamlPrompt with no required field (codeGen.ts:52-61 left out)
validateYamlPrompt_NoRequiredFields(yamlText) ==
    [ isValid |-> TRUE, errors |-> {},
      processed |-> IF Includes(yamlText, Key("ui_style")) THEN yamlText
                    ELSE yamlText \o << NL >> \o Key("ui_style")
                           \o << SP, "Clean and modern" >> ]

\* codeGen.ts:46-78
validateYamlPrompt(yamlText) ==
    LET errors == { k \in { "project_name", "features", "tech_stack" } :
                      ~ Includes(yamlText, Key(k)) }
        processed == IF Includes(yamlText, Key("ui_style")) THEN yamlText
                     ELSE yamlText \o << NL >> \o Key("ui_style")
                            \o << SP, "Clean and modern" >>
    IN  [ isValid |-> errors = {}, errors |-> errors,
          processed |-> IF errors = {} THEN processed ELSE Null ]

\* a message handed to a client socket: its type, the session identifier
\* and role it carries, and which value of the program is its payload
Message(to, type, sid, role, payload) ==
    [ to |-> to, type |-> type, sessionId |-> sid, role |-> role,
      payload |-> payload ]

\* codeGen.ts:93-102: the messages emitEvent hands to socket ws
emitEvent(ws, type, sid, payload) ==
    IF wsState[ws] = "open" THEN << Message(ws, type, sid, "", payload) >>
    ELSE << >>

\* browserWs?.readyState === WebSocket.OPEN, then browserWs.send(...)
SendToBrowser(type, sid, role, payload) ==
    IF browserWs # NoSocket /\ wsState[browserWs] = "open"
    THEN << Message(browserWs, type, sid, role, payload) >>
    ELSE << >>

\* the slot a session object is still reachable from: it is the object the
\* registry holds for its identifier, or its call has not returned
Registered(registry, g, rec) ==
    rec.sid \in DOMAIN registry /\ registry[rec.sid] = g

\* session objects nothing refers to any more are dropped
Collect(slots, registry) ==
    [ g \in GenSlots |->
        IF slots[g].pc = "returned" /\ ~ Registered(registry, g, slots[g])
        THEN NoGen ELSE slots[g] ]

\* a call that has returned no longer holds its socket and its caller
Returned(rec) == [ rec EXCEPT !.pc = "returned", !.ws = 0, !.owner = 0 ]

\* identifiers some session, call or conversation still carries
UsedIds ==
    ({ gens[g].sid : g \in GenSlots } \cup DOMAIN activeGenerations
       \cup { conversationState.sessionId }) \ { 0 }

\* codeGen.ts:393-395: an identifier nothing carries
generateSessionId == Min((1..(MaxGens + 1)) \ UsedIds)

FreeSlots == { g \in GenSlots : gens[g].pc = "free" }

\* codeGen.ts:114-118; owner is the connection whose message handler made
\* the call, 0 for a direct caller of the manager
NewSession(yamlPrompt, sid, ws, owner) ==
    [ sid |-> sid, yamlPrompt |-> yamlPrompt, status |-> "starting",
      startTime |-> now, previewUrl |-> FALSE, repoPath |-> FALSE,
      ws |-> ws, owner |-> owner, pc |-> "entered" ]

\* ResetToIdeation without the assignment to phase of codeGen.ts:827, 833
ResetKeepsPhase(cs) ==
    [ cs EXCEPT !.lastYamlPrompt = Null, !.sessionId = 0 ]

\* codeGen.ts:826-829 and 833-835
ResetToIdeation(cs) ==
    [ cs EXCEPT !.phase = "ideation", !.lastYamlPrompt = Null,
                !.sessionId = 0 ]

\* the continuation of the caller after "await startCodeGeneration(...)":
\* the message handler (codeGen.ts:822-836) resets the conversation when
\* the call failed; a direct caller of the manager has no conversation
AfterStart(cs, owner, success) ==
    IF owner # 0 /\ ~ success THEN ResetToIdeation(cs) ELSE cs

\* codeGen.ts:107-121: startCodeGeneration up to the emit of codegen-start.
\* With a null socket emitEvent raises before the try block is entered: the
\* session stays registered and the call rejects.
EnterStart(yamlPrompt, sid, ws, owner) ==
    LET g == Min(FreeSlots)
        registry == MapSet(activeGenerations, sid, g)
        session == NewSession(yamlPrompt, sid, ws, owner)
    IN  /\ FreeSlots # {}
        /\ activeGenerations' = registry
        /\ IF ws = NoSocket
           THEN /\ gens' = Collect([ gens EXCEPT ![g] = Returned(session) ],
                                   registry)
                /\ sent' = << >>
                /\ turn' = Idle
           ELSE /\ gens' = Collect([ gens EXCEPT ![g] = session ], registry)
                /\ sent' = emitEvent(ws, "codegen-start", sid, "yamlPrompt")
                /\ turn' = [ at |-> "starting", conn |-> owner, gen |-> g ]

\* codeGen.ts:811-820 (and 831-836 when the call raises at once)
HandlerStart ==
    /\ turn.at = "transitioning"
    /\ LET cs == [ conversationState EXCEPT !.phase = "code_generation" ]
       IN  /\ EnterStart(cs.lastYamlPrompt, cs.sessionId, browserWs, turn.conn)
           /\ conversationState' =
                 IF browserWs = NoSocket THEN AfterStart(cs, turn.conn, FALSE)
                 ELSE cs
    /\ last' = Ran("start", IF browserWs = NoSocket THEN "raised" ELSE "entered")
    /\ UNCHANGED << browserWs, wsState, agentState, fnIn, fnOut, disk, now >>

\* codeGen.ts:83-88: the directory generated/<sessionId> is removed when it
\* exists.  fs.rmSync can raise (a file in use, missing permission); raises
\* is the outcome of that call, and the directory is then still there.
cleanupSession(files, sessionId, raises) ==
    IF sessionId \in files /\ ~ raises THEN files \ { sessionId } ELSE files

\* fs.rmSync is only called, and so can only raise, for a directory that
\* exists (codeGen.ts:85-86)
CanRaise(files, sessionId, raises) == raises => sessionId \in files

\* codeGen.ts:162-177: the catch block of startCodeGeneration, entered with
\* the directories files on disk.  When cleanupSession raises, lines 174-176
\* are not reached: the session stays registered and the call rejects.
ErrorPath(g, files, raises) ==
    /\ disk' = cleanupSession(files, gens[g].sid, raises)
    /\ activeGenerations' = IF raises THEN activeGenerations
                            ELSE MapDelete(activeGenerations, gens[g].sid)
    /\ gens' = Collect([ gens EXCEPT ![g] =
                           Returned([ @ EXCEPT !.status = "error" ]) ],
                       activeGenerations')
    /\ conversationState' = AfterStart(conversationState, gens[g].owner, FALSE)

\* codeGen.ts:123-134: validation, then the call of the backend
Validate ==
    /\ turn.at = "starting"
    /\ LET g == turn.gen
           validation == validateYamlPrompt(gens[g].yamlPrompt)
       IN  IF validation.isValid
           THEN /\ gens' = [ gens EXCEPT ![g].status = "generating",
                                         ![g].pc = "awaiting" ]
                /\ sent' = emitEvent(gens[g].ws, "codegen-validation-passed",
                                     gens[g].sid, "none")
                /\ last' = Ran("validate", "passed")
                /\ UNCHANGED << activeGenerations, conversationState, disk >>
           ELSE \E raises \in BOOLEAN :
                /\ CanRaise(disk, gens[g].sid, raises)
                /\ ErrorPath(g, disk, raises)
                /\ sent' = emitEvent(gens[g].ws, "codegen-error",
                                     gens[g].sid, "error")
                /\ last' = Ran("validate", IF raises THEN "raised" ELSE "failed")
    /\ turn' = Idle
    /\ UNCHANGED << browserWs, wsState, agentState, fnIn, fnOut, now >>

\* openaiCodegen.ts:406-455 then codeGen.ts:141-145 and 152-160: the
\* backend writes the project to generated/<sessionId>, reports the preview
\* and returns; startCodeGeneration returns success
BackendSucceeds(g) ==
    /\ turn.at = "idle"
    /\ gens[g].pc = "awaiting"
    /\ gens' = Collect([ gens EXCEPT ![g] =
                           Returned([ @ EXCEPT !.status = "ready",
                                               !.previewUrl = TRUE,
                                               !.repoPath = TRUE ]) ],
                       activeGenerations)
    /\ disk' = disk \cup { gens[g].sid }
    /\ sent' = emitEvent(gens[g].ws, "codegen-preview-ready", gens[g].sid, "url")
               \o emitEvent(gens[g].ws, "codegen-complete", gens[g].sid, "url")
    /\ conversationState' = AfterStart(conversationState, gens[g].owner, TRUE)
    /\ last' = Ran("backend", "success")
    /\ UNCHANGED << activeGenerations, turn, browserWs, wsState, agentState,
                    fnIn, fnOut, now >>

\* where runOpenAICodegen fails: before its try block (openaiCodegen.ts:
\* 33-35, onError is not called), in the request or the parsing of its
\* answer (openaiCodegen.ts:45-401), or after the directory of the session
\* was made (openaiCodegen.ts:413-447)
BackendStages == { "configuration", "request", "files" }

\* the backend fails: onError is called for a failure inside its try block
\* (openaiCodegen.ts:457-461, codeGen.ts:146-149); then codeGen.ts:162-177
BackendFails(g, stage, raises) ==
    LET files == IF stage = "files" THEN disk \cup { gens[g].sid } ELSE disk
        onError == IF stage = "configuration" THEN << >>
                   ELSE emitEvent(gens[g].ws, "codegen-error", gens[g].sid,
                                  "error")
    IN  /\ turn.at = "idle"
        /\ gens[g].pc = "awaiting"
        /\ CanRaise(files, gens[g].sid, raises)
        /\ ErrorPath(g, files, raises)
        /\ sent' = onError \o emitEvent(gens[g].ws, "codegen-error",
                                        gens[g].sid, "error")
        /\ last' = Ran("backend", IF raises THEN "raised" ELSE "failure")
        /\ UNCHANGED << turn, browserWs, wsState, agentState, fnIn, fnOut,
                        now >>

\* cancelCodeGeneration without the delete of codeGen.ts:192
cancelCodeGeneration_KeepsEntry(sid, ws, raises) ==
    /\ turn.at = "idle"
    /\ ws # NoSocket
    /\ IF sid \notin DOMAIN activeGenerations
       THEN /\ ~ raises
            /\ sent' = << >>
            /\ last' = Ran("cancel", "false")
            /\ UNCHANGED << gens, activeGenerations, disk >>
       ELSE /\ CanRaise(disk, sid, raises)
            /\ disk' = cleanupSession(disk, sid, raises)
            /\ activeGenerations' = activeGenerations
            /\ gens' = [ gens EXCEPT ![activeGenerations[sid]].status =
                                        "cancelled" ]
            /\ sent' = emitEvent(ws, "codegen-cancelled", sid, "none")
            /\ last' = Ran("cancel", IF raises THEN "raised" ELSE "true")
    /\ UNCHANGED << conversationState, turn, browserWs, wsState, agentState,
                    fnIn, fnOut, now >>

\* codeGen.ts:183-195; cancelFn is never assigned, so "session.cancelFn?.()"
\* calls nothing.  When cleanupSession raises, line 192 is not reached.
cancelCodeGeneration(sid, ws, raises) ==
    /\ turn.at = "idle"
    /\ ws # NoSocket
    /\ IF sid \notin DOMAIN activeGenerations
       THEN /\ ~ raises
            /\ sent' = << >>
            /\ last' = Ran("cancel", "false")
            /\ UNCHANGED << gens, activeGenerations, disk >>
       ELSE /\ CanRaise(disk, sid, raises)
            /\ disk' = cleanupSession(disk, sid, raises)
            /\ activeGenerations' = IF raises THEN activeGenerations
                                    ELSE MapDelete(activeGenerations, sid)
            /\ gens' = Collect([ gens EXCEPT ![activeGenerations[sid]].status =
                                                "cancelled" ],
                               activeGenerations')
            /\ sent' = emitEvent(ws, "codegen-cancelled", sid, "none")
            /\ last' = Ran("cancel", IF raises THEN "raised" ELSE "true")
    /\ UNCHANGED << conversationState, turn, browserWs, wsState, agentState,
                    fnIn, fnOut, now >>

\* codeGen.ts:200-202; NoGen stands for null
getGenerationStatus(sessionId) ==
    IF sessionId \in DOMAIN activeGenerations
    THEN gens[activeGenerations[sessionId]]
    ELSE NoGen

\* IsStale without the test of the status (codeGen.ts:218)
IsStale_IgnoresStatus(sessionId, maxAgeMinutes) ==
    gens[activeGenerations[sessionId]].startTime < now - maxAgeMinutes

\* codeGen.ts:215, 218: the test of the sweep on one registered session;
\* time is counted in minutes
IsStale(sessionId, maxAgeMinutes) ==
    LET cutoff == now - maxAgeMinutes
        session == gens[activeGenerations[sessionId]]
    IN  session.startTime < cutoff /\ session.status # "ready"

\* what a call of a manager operation gave back that is not a branch name
Gave(kind, branch, count) == [ kind |-> kind, branch |-> branch, count |-> count ]

\* codeGen.ts:214-227.  The loop visits the registered sessions in the order
\* of their insertion, which the registry of the model does not keep: when
\* fs.rmSync raises at session failAt the loop is left, with any of the other
\* stale sessions (visited) already removed.  failAt = 0: nothing raises.
cleanupStaleGenerations(maxAgeMinutes, failAt, visited) ==
    LET stale == { s \in DOMAIN activeGenerations : IsStale(s, maxAgeMinutes) }
        removed == IF failAt = 0 THEN stale ELSE visited
    IN  /\ turn.at = "idle"
        /\ IF failAt = 0 THEN visited = stale
           ELSE failAt \in stale \cap disk /\ visited \subseteq stale \ { failAt }
        /\ disk' = disk \ removed
        /\ activeGenerations' = [ s \in DOMAIN activeGenerations \ removed |->
                                    activeGenerations[s] ]
        /\ gens' = Collect(gens, activeGenerations')
        /\ sent' = << >>
        /\ last' = IF failAt = 0
                   THEN Gave("sweep", "returned", Cardinality(removed))
                   ELSE Ran("sweep", "raised")
        /\ UNCHANGED << conversationState, turn, browserWs, wsState,
                        agentState, fnIn, fnOut, now >>

(***************************************************************************)
(* Relay: connections, codeGen.ts:921-966 and 893-902                      *)
(***************************************************************************)
FreeConns == { c \in Conns : wsState[c] = "none" }

\* agent socket c is open, or agent.disconnect() was called for it
\* (codeGen.ts:911-913) and its close event is still to come: until then
\* the socket delivers what is in flight
Delivers(c) == agentState[c] \in { "open", "closing" }

\* a connection whose two sockets are closed delivers nothing more: what
\* still refers to its client socket refers to a closed socket
Finished(ws, agent, c) == ws[c] = "closed" /\ agent[c] = "closed"

Forget(ref, ws, agent) ==
    IF ref \in Sockets /\ Finished(ws, agent, ref) THEN ClosedSocket
    ELSE ref

\* the variables after the sockets took the states ws and agent, with
\* browserWs set to b
Release(ws, agent, b) ==
    /\ wsState' = [ c \in 1..ClosedSocket |->
                      IF c \in Sockets /\ Finished(ws, agent, c) THEN "none"
                      ELSE ws[c] ]
    /\ agentState' = [ c \in Sockets |->
                         IF Finished(ws, agent, c) THEN "none" ELSE agent[c] ]
    /\ browserWs' = Forget(b, ws, agent)
    /\ gens' = [ g \in GenSlots |->
                   [ gens[g] EXCEPT !.ws = Forget(@, ws, agent),
                                    !.owner = Forget(@, ws, agent) ] ]

\* Accept without the browserWs.close() of codeGen.ts:931-934
Accept_KeepsPrevious(ws) ==
    /\ turn.at = "idle"
    /\ wsState[ws] = "none"
    /\ wsState' = [ wsState EXCEPT ![ws] = "open" ]
    /\ browserWs' = ws
    /\ agentState' = [ agentState EXCEPT ![ws] = "connecting" ]
    /\ conversationState' = InitialConversationState
    /\ sent' = << >>
    /\ last' = Ran("connect", "")
    /\ UNCHANGED << activeGenerations, gens, turn, fnIn, fnOut, disk, now >>

\* codeGen.ts:926-941: the connection event of the new client socket ws;
\* the agent handshake is awaited
Accept(ws) ==
    /\ turn.at = "idle"
    /\ wsState[ws] = "none"
    /\ wsState' =
          [ c \in 1..ClosedSocket |->
              IF c = ws THEN "open"
              ELSE IF c = browserWs /\ wsState[c] = "open" THEN "closing"
              ELSE wsState[c] ]
    /\ browserWs' = ws
    /\ agentState' = [ agentState EXCEPT ![ws] = "connecting" ]
    /\ conversationState' = InitialConversationState
    /\ sent' = << >>
    /\ last' = Ran("connect", "")
    /\ UNCHANGED << activeGenerations, gens, turn, fnIn, fnOut, disk, now >>

\* a client connects to the server, which follows MaxConns connections
BrowserConnect == FreeConns # {} /\ Accept(Min(FreeConns))

\* codeGen.ts:498-505, 653-656, 941-966: the handshake with the agent
\* completes; the handlers of both sockets are registered from here on
AgentHandshake(c) ==
    /\ turn.at = "idle"
    /\ agentState[c] = "connecting"
    /\ agentState' = [ agentState EXCEPT ![c] = "open" ]
    /\ sent' = << >>
    /\ last' = Ran("handshake", "")
    /\ UNCHANGED << conversationState, activeGenerations, gens, turn,
                    browserWs, wsState, fnIn, fnOut, disk, now >>

\* codeGen.ts:498-505 and 915-919: the agent socket emits error before it
\* opens, the awaited promise rejects and the catch block of connectToAgent
\* calls process.exit(1)
AgentHandshakeFails(c) ==
    /\ turn.at = "idle"
    /\ agentState[c] = "connecting"
    /\ agentState' = [ agentState EXCEPT ![c] = "closed" ]
    /\ turn' = Exited
    /\ sent' = << >>
    /\ last' = Ran("exit", "handshake")
    /\ UNCHANGED << conversationState, activeGenerations, gens, browserWs,
                    wsState, fnIn, fnOut, disk, now >>

\* codeGen.ts:953-961: the close event of client socket c. Its handler
\* exists only once the handshake of c has completed. agent.disconnect()
\* starts the closing handshake of the agent socket (codeGen.ts:911-913).
ClientClose(c) ==
    /\ turn.at = "idle"
    /\ wsState[c] \in { "open", "closing" }
    /\ LET registered == agentState[c] # "connecting"
           ws == [ wsState EXCEPT ![c] = "closed" ]
           b == IF registered /\ browserWs = c THEN NoSocket ELSE browserWs
           agent == IF agentState[c] = "open"
                    THEN [ agentState EXCEPT ![c] = "closing" ]
                    ELSE agentState
       IN  /\ Release(ws, agent, b)
           /\ last' = Ran("clientClose",
                          IF registered THEN "handled" ELSE "unhandled")
    /\ sent' = << >>
    /\ UNCHANGED << conversationState, activeGenerations, turn, fnIn, fnOut, disk, now >>

\* AgentClose without the browserWs.close() of codeGen.ts:899-901
AgentClose_LeavesClient(c) ==
    /\ turn.at = "idle"
    /\ Delivers(c)
    /\ Release(wsState, [ agentState EXCEPT ![c] = "closed" ], browserWs)
    /\ sent' = << >>
    /\ last' = Ran("agentClose", "")
    /\ UNCHANGED << conversationState, activeGenerations, turn, fnIn, fnOut,
                    disk, now >>

\* codeGen.ts:897-902: the close event of agent socket c
AgentClose(c) ==
    /\ turn.at = "idle"
    /\ Delivers(c)
    /\ LET ws == IF browserWs # NoSocket /\ wsState[browserWs] = "open"
                 THEN [ wsState EXCEPT ![browserWs] = "closing" ]
                 ELSE wsState
           agent == [ agentState EXCEPT ![c] = "closed" ]
       IN  Release(ws, agent, browserWs)
    /\ sent' = << >>
    /\ last' = Ran("agentClose", "")
    /\ UNCHANGED << conversationState, activeGenerations, turn, fnIn, fnOut, disk, now >>

(***************************************************************************)
(* Relay: ConversationText messages of agent socket c, codeGen.ts:680-861  *)
(***************************************************************************)
\* codeGen.ts:685-713: what is forwarded to the client
ForwardText(role, content) ==
    IF role = "assistant" /\ hasYamlContent(content) THEN << >>
    ELSE SendToBrowser("text", 0, role, "content")

\* codeGen.ts:680-783: what the handler does with a message whose role is
\* assistant
AssistantEffect(content) ==
    /\ conversationState' = TrackAssistant(conversationState, content).cs
    /\ sent' = ForwardText("assistant", content)
    /\ last' = Ran("assistant", AssistantBranch(conversationState, content))
    /\ UNCHANGED << activeGenerations, gens, turn, browserWs, wsState,
                    agentState, disk, now >>

\* a ConversationText message of agent socket c whose role is assistant
AssistantText(c, content) ==
    /\ turn.at = "idle"
    /\ Delivers(c)
    /\ LET buffer == TrackAssistant(conversationState, content).cs.yamlBuffer
       IN  buffer # Null => Len(buffer) <= MaxBufLen
    /\ AssistantEffect(content)
    /\ UNCHANGED << fnIn, fnOut >>

\* the guard of codeGen.ts:786-789
ApprovalWithYaml(cs, content) ==
    /\ cs.phase = "prompt_review"
    /\ Truthy(cs.lastYamlPrompt)
    /\ detectYamlApproval(content)

\* ApprovalWithoutYaml without the ideation alternative of codeGen.ts:838
ApprovalWithoutYaml_ReviewOnly(cs, content) ==
    /\ cs.phase = "prompt_review"
    /\ detectYamlApproval(content)

\* the guard of codeGen.ts:837-839
ApprovalWithoutYaml(cs, content) ==
    /\ cs.phase \in { "prompt_review", "ideation" }
    /\ detectYamlApproval(content)

\* codeGen.ts:708-713 and 785-861, which branch a user message takes
UserBranch(cs, content) ==
    IF ApprovalWithYaml(cs, content) THEN "approved"
    ELSE IF ApprovalWithoutYaml(cs, content) THEN "corrective"
    ELSE "other"

\* PhaseTransition without the send of codeGen.ts:803-807
PhaseTransition_Unsent(sid) == << >>

\* codeGen.ts:802-808: the client is told of the transition and of the
\* identifier of the session
PhaseTransition(sid) ==
    SendToBrowser("phase_transition", sid, "", "code_generation")

\* codeGen.ts:708-713 and 785-861, for a message whose role is user; the
\* approved branch runs on in HandlerStart and Validate
UserText(c, content) ==
    /\ turn.at = "idle"
    /\ Delivers(c)
    /\ LET cs == conversationState
           sid == generateSessionId
           branch == UserBranch(cs, content)
       IN  /\ CASE branch = "approved" ->
                     /\ FreeSlots # {}
                     /\ conversationState' =
                           [ cs EXCEPT !.phase = "transitioning",
                                       !.sessionId = sid ]
                     /\ sent' = ForwardText("user", content)
                                \o PhaseTransition(sid)
                     /\ turn' = [ at |-> "transitioning", conn |-> c,
                                  gen |-> 0 ]
                [] branch = "corrective" ->
                     /\ sent' = ForwardText("user", content)
                                \o SendToBrowser("text", 0, "system",
                                                 "corrective")
                     /\ UNCHANGED << conversationState, turn >>
                [] branch = "other" ->
                     /\ sent' = ForwardText("user", content)
                     /\ UNCHANGED << conversationState, turn >>
           /\ last' = Ran("user", branch)
    /\ UNCHANGED << activeGenerations, gens, browserWs, wsState, agentState,
                    fnIn, fnOut, disk, now >>

(***************************************************************************)
(* Relay: binary frames, codeGen.ts:656-672, 867-887, 904-910, 943-951     *)
(***************************************************************************)
\* the bytes of a binary frame: audio samples that are no JSON text, the
\* byte 0x31 (the JSON text 1) and the byte 0x30 (the JSON text 0)
Frames == { "pcm", "1", "0" }

\* JSON.parse(data.toString('utf8')), codeGen.ts:662-670
JsonParse(data) ==
    CASE data = "1" -> [ isJson |-> TRUE, message |-> 1 ]
      [] data = "0" -> [ isJson |-> TRUE, message |-> 0 ]
      [] OTHER -> [ isJson |-> FALSE, message |-> 0 ]

\* the agent socket opened for client socket c, as a destination
AgentSocket(c) == ClosedSocket + c

\* codeGen.ts:672, 872: "isJson && message" is false, the audio branch runs
ForwardsAudio(data) ==
    ~ (JsonParse(data).isJson /\ JsonParse(data).message # 0)

\* codeGen.ts:656-672 and 867-887: agent socket c delivers a binary frame.
\* Bytes that parse to a truthy JSON value take the branch of the JSON
\* messages, where a value without a type is only logged (codeGen.ts:864).
AgentFrame(c, data) ==
    /\ turn.at = "idle"
    /\ Delivers(c)
    /\ sent' = IF ForwardsAudio(data)
               THEN SendToBrowser("binary", 0, "", data)
               ELSE << >>
    /\ last' = Ran("agentFrame",
                   IF ~ ForwardsAudio(data) THEN "other"
                   ELSE IF sent' = << >> THEN "dropped" ELSE "forwarded")
    /\ UNCHANGED << conversationState, activeGenerations, gens, turn,
                    browserWs, wsState, agentState, fnIn, fnOut, disk, now >>

\* codeGen.ts:943-951 and 905-909: client socket c delivers a binary frame.
\* The message handler of the socket exists once the handshake with its
\* agent has completed; agent.send tests the readyState of the agent socket.
ClientFrame(c, data) ==
    /\ turn.at = "idle"
    /\ wsState[c] \in { "open", "closing" }
    /\ agentState[c] \in { "connecting", "open", "closing", "closed" }
    /\ sent' = IF agentState[c] = "open"
               THEN << Message(AgentSocket(c), "binary", 0, "", data) >>
               ELSE << >>
    /\ last' = Ran("clientFrame",
                   IF agentState[c] = "connecting" THEN "unhandled"
                   ELSE IF agentState[c] = "open" THEN "forwarded"
                   ELSE "dropped")
    /\ UNCHANGED << conversationState, activeGenerations, gens, turn,
                    browserWs, wsState, agentState, fnIn, fnOut, disk, now >>

(***************************************************************************)
(* The server: clients connect, the agent sends conversation text, the     *)
(* backend finishes or fails                                               *)
(***************************************************************************)
Next ==
    \/ BrowserConnect
    \/ \E c \in Conns : AgentHandshake(c)
    \/ \E c \in Conns : AgentHandshakeFails(c)
    \/ \E c \in Conns : ClientClose(c)
    \/ \E c \in Conns : AgentClose(c)
    \/ \E c \in Conns, m \in AssistantMessages : AssistantText(c, m)
    \/ \E c \in Conns, m \in UserMessages : UserText(c, m)
    \/ \E c \in Conns, data \in Frames : AgentFrame(c, data)
    \/ \E c \in Conns, data \in Frames : ClientFrame(c, data)
    \/ HandlerStart
    \/ Validate
    \/ \E g \in GenSlots : BackendSucceeds(g)
    \/ \E g \in GenSlots, stage \in BackendStages, raises \in BOOLEAN :
          BackendFails(g, stage, raises)

Init ==
    /\ InitSystem
    /\ fnIn = << >>
    /\ fnOut = << >>

Spec == Init /\ [][Next]_vars

(***************************************************************************)
(* The session manager called directly: the exported operations of         *)
(* codeGen.ts:107-227, with a client connected and, in one of the two      *)
(* initial states, a generation started by an approval still running       *)
(***************************************************************************)
SessionIds == 1..MaxGens

\* a complete specification and one the validation rejects
MgrYamlPrompts == { FullBody, Key("project_name") \o << "x" >> }

\* the first client is connected and the handshake with its agent is done
Connected ==
    /\ turn = Idle
    /\ browserWs = 1
    /\ wsState = [ c \in 1..ClosedSocket |->
                     IF c = 1 THEN "open"
                     ELSE IF c = ClosedSocket THEN "closed" ELSE "none" ]
    /\ agentState = [ c \in Sockets |-> IF c = 1 THEN "open" ELSE "none" ]

\* nothing was said yet
ConversationNotStarted ==
    /\ conversationState = InitialConversationState
    /\ activeGenerations = EmptyMap
    /\ gens = [ g \in GenSlots |-> NoGen ]
    /\ sent = << >>
    /\ last = Ran("handshake", "")

\* the user approved the template: session 1 passed validation and waits
\* for the backend
GenerationInFlight ==
    /\ conversationState =
          [ phase |-> "code_generation", lastYamlPrompt |-> FullBody,
            sessionId |-> 1, yamlBuffer |-> Null ]
    /\ activeGenerations = MapSet(EmptyMap, 1, 1)
    /\ gens = [ g \in GenSlots |->
                  IF g = 1
                  THEN [ NewSession(FullBody, 1, 1, 1) EXCEPT
                           !.status = "generating", !.pc = "awaiting" ]
                  ELSE NoGen ]
    /\ sent = << Message(1, "codegen-validation-passed", 1, "", "none") >>
    /\ last = Ran("validate", "passed")

MgrInit ==
    /\ now = 0
    /\ disk = {}
    /\ Connected
    /\ ConversationNotStarted \/ GenerationInFlight
    /\ fnIn = << >>
    /\ fnOut = << >>

\* codeGen.ts:107-121: startCodeGeneration called by another caller than
\* the message handler, with the current client socket
MgrStart(sid, yamlPrompt) ==
    /\ turn.at = "idle"
    /\ EnterStart(yamlPrompt, sid, browserWs, 0)
    /\ last' = Ran("start", "entered")
    /\ UNCHANGED << conversationState, browserWs, wsState, agentState, fnIn,
                    fnOut, disk, now >>

\* minutes that pass while the manager is followed
MaxClock == 2

\* the thresholds the sweep is called with
MaxAges == 0..1

\* a minute passes
Tick ==
    /\ turn.at = "idle"
    /\ now < MaxClock
    /\ now' = now + 1
    /\ sent' = << >>
    /\ last' = Ran("tick", "")
    /\ UNCHANGED << conversationState, activeGenerations, gens, turn,
                    browserWs, wsState, agentState, fnIn, fnOut, disk >>

MgrNext ==
    \/ \E sid \in SessionIds, y \in MgrYamlPrompts : MgrStart(sid, y)
    \/ Validate
    \/ \E g \in GenSlots : BackendSucceeds(g)
    \/ \E g \in GenSlots, stage \in BackendStages, raises \in BOOLEAN :
          BackendFails(g, stage, raises)
    \/ \E sid \in SessionIds, raises \in BOOLEAN :
          cancelCodeGeneration(sid, browserWs, raises)
    \/ \E maxAgeMinutes \in MaxAges, failAt \in {0} \cup SessionIds,
          visited \in SUBSET SessionIds :
          cleanupStaleGenerations(maxAgeMinutes, failAt, visited)
    \/ Tick

MgrSpec == MgrInit /\ [][MgrNext]_vars

(***************************************************************************)
(* Reconnection: a client connects while the sockets of an earlier client  *)
(* are still there, codeGen.ts:921-966.  The conversation is reduced to a  *)
(* complete specification without fences, small talk and an approval.      *)
(***************************************************************************)
ReconnectUser == { << "Yes" >> }

\* the connection event of the first socket that is not in use
Reconnect(ws) ==
    /\ \A c \in Sockets : wsState[c] = "none" => ws <= c
    /\ Accept(ws)

ReconnectNext ==
    \/ \E ws \in Sockets : Reconnect(ws)
    \/ \E c \in Sockets : AgentHandshake(c)
    \/ \E c \in Sockets : ClientClose(c)
    \/ \E c \in Sockets : AgentClose(c)
    \/ \E c \in Sockets, m \in ReconnectAssistant : AssistantText(c, m)
    \/ \E c \in Sockets, m \in ReconnectUser : UserText(c, m)
    \/ \E c \in Sockets : AgentFrame(c, "pcm")
    \/ HandlerStart
    \/ Validate
    \/ \E g \in GenSlots : BackendSucceeds(g)
    \/ \E g \in GenSlots : BackendFails(g, "request", FALSE)

ReconnectSpec == Init /\ [][ReconnectNext]_vars

(***************************************************************************)
(* Extraction Engine alone: extractYamlFromText applied to one text        *)
(***************************************************************************)
Layouts ==
    { "fenced", "fencedTight", "generic", "tagOnly", "bare", "bareChat",
      "bareGap" }

\* a candidate text holding the keys of K in the given layout
MkText(K, layout) ==
    LET body == BodyFrom(K, 1, << NL >>)
    IN  CASE layout = "fenced" ->
               << "x", NL >> \o OPENMARK \o << NL >> \o body \o << NL >> \o FENCE
          [] layout = "fencedTight" -> OPENMARK \o body \o FENCE
          [] layout = "generic" ->
               FENCE \o << NL >> \o body \o << NL >> \o FENCE
          [] layout = "tagOnly" -> << YAMLWORD, NL >> \o body
          [] layout = "bare" -> body
          [] layout = "bareChat" ->
               << "x", NL >> \o body \o << NL, HOWDOES >>
          [] layout = "bareGap" ->
               \* every line is followed by an empty line
               BodyFrom(K, 1, << NL, NL >>)

ExtractInputs == { MkText(K, l) : K \in SUBSET RequiredKeys, l \in Layouts }

ExtractInit ==
    /\ InitSystem
    /\ fnIn \in ExtractInputs
    /\ fnOut = [ done |-> FALSE, value |-> Null ]

RunExtract ==
    /\ ~ fnOut.done
    /\ fnOut' = [ done |-> TRUE, value |-> extractYamlFromText(fnIn) ]
    /\ UNCHANGED << sysVars, fnIn >>

ExtractNext == RunExtract

ExtractSpec == ExtractInit /\ [][ExtractNext]_vars

(***************************************************************************)
(* startCodeGeneration alone: one call for each choice of keys             *)
(***************************************************************************)
\* the specifications a caller hands over: the keys of K, one per line
StartInputs == { MkText(K, "bare") : K \in SUBSET RequiredKeys }

StartInit ==
    /\ now = 0
    /\ disk = {}
    /\ Connected
    /\ ConversationNotStarted
    /\ fnIn \in StartInputs
    /\ fnOut = << >>

\* the caller starts a generation for the specification when none is known
StartOnce ==
    /\ activeGenerations = EmptyMap
    /\ FreeSlots = GenSlots
    /\ MgrStart(1, fnIn)

StartNext ==
    \/ StartOnce
    \/ Validate
    \/ \E g \in GenSlots : BackendSucceeds(g)
    \/ \E g \in GenSlots, stage \in BackendStages, raises \in BOOLEAN :
          BackendFails(g, stage, raises)

StartSpec == StartInit /\ [][StartNext]_vars

(***************************************************************************)
(* Stream buffer alone: one text delivered as consecutive fragments        *)
(***************************************************************************)
\* places at which a text is cut
MaxCuts == 2

ChunkTexts == { FencedBlock, << "x", NL >> \o FencedBlock }

RECURSIVE CutSets(_, _)
\* the sets of at most n positions of 1..len
CutSets(len, n) ==
    IF n = 0 THEN { {} }
    ELSE LET fewer == CutSets(len, n - 1)
         IN  fewer \cup { D \cup { c } : D \in fewer, c \in 1..len }

\* a text and the positions after which it is cut
ChunkInputs ==
    UNION { { [ text |-> t, cuts |-> C ] : C \in CutSets(Len(t) - 1, MaxCuts) } :
              t \in ChunkTexts }

NthCut(cuts, n) == CHOOSE c \in cuts : Cardinality({ d \in cuts : d < c }) = n - 1

NumFragments(in) == Cardinality(in.cuts) + 1

\* the n-th fragment of the input
Fragment(in, n) ==
    SubSeq(in.text,
           IF n = 1 THEN 1 ELSE NthCut(in.cuts, n - 1) + 1,
           IF n = NumFragments(in) THEN Len(in.text) ELSE NthCut(in.cuts, n))

ChunkInit ==
    /\ Connected
    /\ ConversationNotStarted
    /\ disk = {}
    /\ now = 0
    /\ fnIn \in ChunkInputs
    /\ fnOut = [ fed |-> 0, handed |-> << >> ]

\* the agent delivers the next fragment as an assistant message; handed
\* collects the texts extractYamlFromText is called with
FeedFragment ==
    /\ fnOut.fed < NumFragments(fnIn)
    /\ LET content == Fragment(fnIn, fnOut.fed + 1)
           r == TrackAssistant(conversationState, content)
       IN  /\ AssistantEffect(content)
           /\ fnOut' = [ fed |-> fnOut.fed + 1,
                         handed |-> IF r.extracted = Null THEN fnOut.handed
                                    ELSE Append(fnOut.handed, r.extracted) ]
    /\ UNCHANGED fnIn

ChunkNext == FeedFragment

ChunkSpec == ChunkInit /\ [][ChunkNext]_vars

(***************************************************************************)
(* Properties                                                              *)
(***************************************************************************)
\* a startCodeGeneration call that has not returned
Outstanding(g) == gens[g].pc \in { "entered", "awaiting" }

\* C1: for one client connection at most one generation call is outstanding
\* at any time: no two calls made by the message handler of the same
\* connection are in progress together.
C1_OneOutstandingCall ==
    \A g, h \in GenSlots :
        (g # h /\ Outstanding(g) /\ Outstanding(h) /\ gens[g].owner \in Conns)
            => gens[g].owner # gens[h].owner

\* C2: in every reachable state phase = transitioning implies that
\* lastYamlPrompt is present, phase = code_generation implies a non-empty
\* lastYamlPrompt and a minted sessionId, and a user message classified as
\* approval while lastYamlPrompt is absent leaves the phase unchanged.
C2_ReadyGate ==
    /\ [](/\ conversationState.phase = "transitioning"
             => conversationState.lastYamlPrompt # Null
          /\ conversationState.phase = "code_generation"
             => /\ Truthy(conversationState.lastYamlPrompt)
                /\ conversationState.sessionId # 0)
    /\ [][\A c \in Conns, m \in UserMessages :
            (/\ detectYamlApproval(m)
             /\ ~ Truthy(conversationState.lastYamlPrompt)
             /\ UserText(c, m))
                => conversationState'.phase = conversationState.phase]_vars

\* the conversation is in code_generation, its specification present and
\* its session waiting for the backend
C2_Witness ==
    /\ conversationState.phase = "code_generation"
    /\ turn.at = "idle"
    /\ Truthy(conversationState.lastYamlPrompt)
    /\ \E g \in GenSlots :
          /\ gens[g].pc = "awaiting"
          /\ gens[g].sid = conversationState.sessionId

\* the order of the phases, codeGen.ts:252
PhaseRank(phase) ==
    CASE phase = "ideation" -> 0
      [] phase = "prompt_review" -> 1
      [] phase = "transitioning" -> 2
      [] phase = "code_generation" -> 3

\* C3: within one connection the phase only moves forward in the order
\* ideation < prompt_review < transitioning < code_generation, except for
\* the reset to ideation when a generation reports failure; no inbound
\* event moves the phase to an earlier phase other than ideation.
C3_PhaseForward ==
    [][\/ PhaseRank(conversationState'.phase)
            >= PhaseRank(conversationState.phase)
       \/ last'.kind = "connect"
       \/ /\ conversationState'.phase = "ideation"
          /\ last' \in { Ran("backend", "failure"), Ran("validate", "failed"),
                         Ran("backend", "raised"), Ran("validate", "raised"),
                         Ran("start", "raised") }]_vars

\* C4: when the generation bound to the conversation ends in failure or is
\* cancelled, the phase returns to ideation and lastYamlPrompt and sessionId
\* are cleared.
C4_FailureOrCancelResets ==
    [][(\/ \E sid \in SessionIds :
              /\ sid = conversationState.sessionId
              /\ sid \in DOMAIN activeGenerations
              /\ cancelCodeGeneration(sid, browserWs, FALSE)
        \/ \E g \in GenSlots, stage \in BackendStages, raises \in BOOLEAN :
              /\ gens[g].sid = conversationState.sessionId
              /\ gens[g].owner # 0
              /\ BackendFails(g, stage, raises))
          => /\ conversationState'.phase = "ideation"
             /\ conversationState'.lastYamlPrompt = Null
             /\ conversationState'.sessionId = 0]_vars

\* C5: when a user message classified as approval arrives while phase is
\* prompt_review and lastYamlPrompt is present, a fresh session identifier
\* is bound to the conversation, phase becomes code_generation, and a
\* session for that identifier is registered with status starting and with
\* lastYamlPrompt as its specification.
C5_ApprovalStartsSession ==
    [][HandlerStart
         => LET sid == conversationState'.sessionId
            IN  /\ conversationState'.phase = "code_generation"
                /\ sid # 0
                /\ sid \notin DOMAIN activeGenerations
                /\ sid \in DOMAIN activeGenerations'
                /\ gens'[activeGenerations'[sid]].status = "starting"
                /\ gens'[activeGenerations'[sid]].yamlPrompt
                     = conversationState.lastYamlPrompt]_vars

\* the approval handler has registered a session in status starting with
\* the approved specification
C5_Witness ==
    /\ turn.at = "starting"
    /\ conversationState.phase = "code_generation"
    /\ conversationState.sessionId \in DOMAIN activeGenerations
    /\ gens[turn.gen].status = "starting"
    /\ gens[turn.gen].yamlPrompt = conversationState.lastYamlPrompt

\* C6: whenever a user message classified as approval arrives while
\* lastYamlPrompt is absent, in any phase, no generation session is created,
\* the phase does not advance, and the corrective text is sent to the
\* client when the client socket is open.
C6_ApprovalWithoutSpec ==
    [][\A c \in Conns, m \in UserMessages :
         (/\ detectYamlApproval(m)
          /\ ~ Truthy(conversationState.lastYamlPrompt)
          /\ UserText(c, m))
            => /\ gens' = gens
               /\ activeGenerations' = activeGenerations
               /\ turn' = Idle
               /\ conversationState'.phase = conversationState.phase
               /\ (browserWs # NoSocket /\ wsState[browserWs] = "open")
                     => \E i \in 1..Len(sent') :
                           sent'[i] = Message(browserWs, "text", 0, "system",
                                              "corrective")]_vars

\* an approval arrived with no specification captured, and the corrective
\* text went to the open client socket
C6_Witness ==
    /\ last = Ran("user", "corrective")
    /\ conversationState.lastYamlPrompt = Null
    /\ \E i \in 1..Len(sent) : sent[i].payload = "corrective"

\* C7: a text that lacks one of the seven required keys is never accepted,
\* on any extraction path, and an accepted value holds all seven keys.
C7_AllOrNothing ==
    fnOut.done =>
        /\ (~ HasAllFields(fnIn) => fnOut.value = Null)
        /\ (fnOut.value # Null => HasAllFields(fnOut.value))

\* C8: for every text holding a fenced block and every way of cutting it
\* into consecutive fragments, the text handed to extraction is the uncut
\* text, and lastYamlPrompt and phase end as they do when the text arrives
\* as one fragment.
C8_ChunkingIndependent ==
    fnOut.fed = NumFragments(fnIn) =>
        LET whole == TrackAssistant(InitialConversationState, fnIn.text).cs
        IN  /\ \A i \in 1..Len(fnOut.handed) : fnOut.handed[i] = fnIn.text
            /\ conversationState.lastYamlPrompt = whole.lastYamlPrompt
            /\ conversationState.phase = whole.phase

\* the assistant messages that contain a moving-on phrase, matched
\* case-insensitively as a substring
MovingOnMessages ==
    { m \in AssistantMessages :
        \E phrase \in movingOnPhrases : Includes(ToLower(m), phrase) }

\* C9 as stated: while yamlBuffer is set, every assistant message that
\* contains a moving-on phrase (case-insensitively) ends the accumulation:
\* the buffer is submitted to extraction and yamlBuffer is absent
\* afterwards.
C9_ForcedCompletionAlways ==
    [][\A c \in Conns, m \in MovingOnMessages :
         (/\ Truthy(conversationState.yamlBuffer)
          /\ AssistantText(c, m))
            => /\ conversationState'.yamlBuffer = Null
               /\ TrackAssistant(conversationState, m).extracted # Null]_vars

\* C9, amended: while yamlBuffer is set, every assistant message that
\* contains a moving-on phrase (case-insensitively) and does not contain
\* the block-open marker ends the accumulation: the buffer with that
\* message appended is submitted to extraction and yamlBuffer is absent
\* afterwards.
C9_ForcedCompletion ==
    [][\A c \in Conns, m \in MovingOnMessages :
         (/\ Truthy(conversationState.yamlBuffer)
          /\ ~ Includes(m, OPENMARK)
          /\ AssistantText(c, m))
            => /\ conversationState'.yamlBuffer = Null
               /\ TrackAssistant(conversationState, m).extracted
                    = JoinNl(conversationState.yamlBuffer, m)]_vars

\* a moving-on phrase ended an accumulation that no closing marker ended
C9_Witness ==
    /\ last = Ran("assistant", "force")
    /\ conversationState.yamlBuffer = Null
    /\ conversationState.phase = "prompt_review"

\* C10: for every session identifier at most one generation effort runs at
\* any time: startCodeGeneration with an identifier whose session has not
\* ended does not produce a second effort for it.
C10_OneEffortPerId ==
    \A g, h \in GenSlots :
        (g # h /\ Outstanding(g) /\ Outstanding(h))
            => gens[g].sid # gens[h].sid

\* C11: a cancel that returned true leaves its identifier unregistered; only
\* a start registers an identifier; and cancel on an identifier that is not
\* registered (cancelled before and not started again, or never registered)
\* returns false, emits no event, removes no directory and leaves the
\* registry and every session unchanged.
C11_SecondCancelIsNoOp ==
    [][\A sid \in SessionIds :
         /\ (/\ last'.kind = "cancel"
             /\ last'.branch = "true"
             /\ cancelCodeGeneration(sid, browserWs, FALSE))
              => sid \notin DOMAIN activeGenerations'
         /\ (/\ sid \notin DOMAIN activeGenerations
             /\ sid \in DOMAIN activeGenerations')
              => last'.kind = "start"
         /\ (/\ sid \notin DOMAIN activeGenerations
             /\ last'.kind = "cancel"
             /\ \E raises \in BOOLEAN :
                   cancelCodeGeneration(sid, browserWs, raises))
              => /\ last' = Ran("cancel", "false")
                 /\ sent' = << >>
                 /\ disk' = disk
                 /\ activeGenerations' = activeGenerations
                 /\ gens' = gens]_vars

\* a cancel returned false while a session that was cancelled before, whose
\* call has not returned yet, is no longer registered
C11_Witness ==
    /\ last = Ran("cancel", "false")
    /\ \E g \in GenSlots :
          /\ gens[g].status = "cancelled"
          /\ gens[g].sid \notin DOMAIN activeGenerations

\* codeGen.ts:19: the statuses after which a session does nothing more
TerminalStatuses == { "ready", "error", "cancelled" }

\* C12: cancel on a registered session that is not terminal, when nothing
\* raises, sets it cancelled, removes its directory and its registry entry
\* and returns true; cancel on a registered session that is already terminal
\* leaves its status, its directory and its registry entry as they are.
C12_CancelOnlyNonTerminal ==
    [][\A sid \in SessionIds :
         (/\ sid \in DOMAIN activeGenerations
          /\ last'.kind = "cancel"
          /\ cancelCodeGeneration(sid, browserWs, FALSE))
         => LET g == activeGenerations[sid]
            IN  IF gens[g].status \in TerminalStatuses
                THEN /\ sid \in DOMAIN activeGenerations'
                     /\ gens'[g].status = gens[g].status
                     /\ disk' = disk
                ELSE /\ sid \notin DOMAIN activeGenerations'
                     /\ sid \notin disk'
                     /\ last' = Ran("cancel", "true")]_vars

C15_SuccessIsReady ==
    [][\A g \in GenSlots :
         (/\ last' = Ran("backend", "success")
          /\ BackendSucceeds(g))
         => LET session == getGenerationStatus(gens[g].sid)'
            IN  /\ session # NoGen
                /\ session.status = "ready"
                /\ session.previewUrl
                /\ session.repoPath]_vars

\* a call returned success and its session is registered, ready, with
\* previewUrl and repoPath set
C15_Witness ==
    /\ last = Ran("backend", "success")
    /\ \E sid \in DOMAIN activeGenerations :
          /\ getGenerationStatus(sid).status = "ready"
          /\ getGenerationStatus(sid).previewUrl
          /\ getGenerationStatus(sid).repoPath

\* C16: no call of start raises: a step of start ends by returning, and a
\* step in which the validation or the backend fails returns failure with
\* the session in error, unregistered, and its directory removed.
C16_StartNeverRaises ==
    [][last'.kind \in { "start", "validate", "backend" }
         => /\ last'.branch # "raised"
            /\ \A g \in GenSlots :
                 (/\ gens[g].pc \in { "entered", "awaiting" }
                  /\ gens'[g].pc \notin { "entered", "awaiting" }
                  /\ last'.branch # "success")
                 => /\ last'.branch \in { "failed", "failure" }
                    /\ gens[g].sid \notin DOMAIN activeGenerations'
                    /\ gens[g].sid \notin disk']_vars

\* C17: a step in which the removal of a session directory raises still
\* ends normally: a failing start returns its failure, cancel returns true
\* and the sweep returns its count; the sessions concerned are no longer
\* registered afterwards.
C17_CleanupFailureAbsorbed ==
    [][last'.kind \in { "validate", "backend", "cancel", "sweep" }
         => /\ \A g \in GenSlots, stage \in BackendStages :
                 BackendFails(g, stage, TRUE)
                   => /\ last' = Ran("backend", "failure")
                      /\ gens[g].sid \notin DOMAIN activeGenerations'
            /\ (turn.at = "starting" /\ last'.kind = "validate"
                  /\ turn.gen \in GenSlots /\ gens[turn.gen].sid \in disk')
                   => last'.branch # "raised"
            /\ \A sid \in SessionIds :
                 cancelCodeGeneration(sid, browserWs, TRUE)
                   => /\ last' = Ran("cancel", "true")
                      /\ sid \notin DOMAIN activeGenerations'
            /\ \A maxAgeMinutes \in MaxAges, failAt \in SessionIds,
                  visited \in SUBSET SessionIds :
                 cleanupStaleGenerations(maxAgeMinutes, failAt, visited)
                   => /\ last'.branch = "returned"
                      /\ \A sid \in DOMAIN activeGenerations :
                           IsStale(sid, maxAgeMinutes)
                             => sid \notin DOMAIN activeGenerations']_vars

\* C18: whenever no handler is running, no session held by the registry is
\* in status ready, error or cancelled.
C18_NoTerminalSessionRegistered ==
    turn.at = "idle"
      => \A sid \in DOMAIN activeGenerations :
           gens[activeGenerations[sid]].status \notin TerminalStatuses

\* C19: a binary frame delivered by the agent socket is handed unchanged to
\* the client socket when that socket is open and to nobody otherwise; a
\* binary frame delivered by a client socket is handed unchanged to its
\* agent socket when that socket is open and to nobody otherwise; and a
\* binary message is handed to a socket only in the step in which its frame
\* was delivered.
C19_BinaryRelay ==
    [][/\ \A i \in 1..Len(sent') :
            sent'[i].type = "binary"
              => last'.kind \in { "agentFrame", "clientFrame" }
       /\ last'.kind = "agentFrame"
            => \A c \in Conns, data \in Frames :
                 AgentFrame(c, data)
                   => sent' = IF browserWs # NoSocket
                                  /\ wsState[browserWs] = "open"
                              THEN << Message(browserWs, "binary", 0, "",
                                              data) >>
                              ELSE << >>
       /\ last'.kind = "clientFrame"
            => \A c \in Conns, data \in Frames :
                 ClientFrame(c, data)
                   => sent' = IF agentState[c] = "open"
                              THEN << Message(AgentSocket(c), "binary", 0, "",
                                              data) >>
                              ELSE << >>]_vars

\* an audio frame of the agent has just been handed to the open client
\* socket
C19_Witness ==
    /\ last = Ran("agentFrame", "forwarded")
    /\ browserWs # NoSocket
    /\ sent = << Message(browserWs, "binary", 0, "", "pcm") >>

\* codeGen.ts:687-694: the text holds the open marker or a required key
LooksLikeSpecBlock(content) ==
    \/ Includes(content, OPENMARK)
    \/ \E k \in RequiredKeys : Includes(content, Key(k))

\* codeGen.ts:704-705, 710-711: the client socket is open
ClientOpen == browserWs # NoSocket /\ wsState[browserWs] = "open"

\* codeGen.ts:705, 711: the text event handed to the client
TextEvent(role) == Message(browserWs, "text", 0, role, "content")

\* the relay of text in one step, withheld being the assistant texts that are
\* not to reach the client
TextRelay(withheld) ==
    /\ last'.kind = "assistant"
         => \A c \in Conns, m \in AssistantMessages :
              AssistantText(c, m)
                => IF m \in withheld THEN sent' = << >>
                   ELSE (ClientOpen
                           => sent' = << TextEvent("assistant") >>)
    /\ last'.kind = "user"
         => \A c \in Conns, m \in UserMessages :
              UserText(c, m)
                => (ClientOpen => /\ sent' # << >>
                                  /\ sent'[1] = TextEvent("user"))

\* the texts codeGen.ts:687-696 withholds
WithheldByRelay ==
    { m \in AssistantMessages :
        LooksLikeSpecBlock(m) \/ MatchesListItem(m) \/ MatchesKeyValue(m) }

\* the texts that hold the open marker or a required key
SpecBlocks == { m \in AssistantMessages : LooksLikeSpecBlock(m) }

\* C20 as stated: an assistant text that holds the open marker or a required
\* key is handed to no client, and every other assistant text and every user
\* text is handed to the client as a text event when the client socket is
\* open.
C20_OnlySpecBlocksWithheld == [][TextRelay(SpecBlocks)]_vars

\* C20 amended: an assistant text that holds the open marker, a required
\* key, a line that starts with a list dash or a line that starts with a
\* word and a colon is handed to no client, and every other assistant text
\* and every user text is handed to the client as a text event when the
\* client socket is open.
C20_TextRelay == [][TextRelay(WithheldByRelay)]_vars

\* an assistant text has just been handed to the open client socket
C20_Witness ==
    /\ last.kind = "assistant"
    /\ ClientOpen
    /\ sent = << TextEvent("assistant") >>

\* C21: no message handed to a client socket carries the specification
\* (the value of yamlPrompt or lastYamlPrompt) as its payload.
C21_YamlNeverSent ==
    \A i \in 1..Len(sent) :
        sent[i].to \in 1..ClosedSocket => sent[i].payload # "yamlPrompt"

\* C22: in the step in which the agent socket of a client closes, the
\* socket of that client stops being open: it was closed before, or its
\* close is requested.
C22_AgentCloseClosesClient ==
    [][last'.kind = "agentClose"
         => \A c \in Sockets : AgentClose(c) => wsState'[c] # "open"]_vars

\* the agent socket has just closed and the close of the client socket,
\* which was open, is requested
C22_Witness ==
    /\ last = Ran("agentClose", "")
    /\ browserWs # NoSocket
    /\ wsState[browserWs] = "closing"
    /\ agentState[browserWs] = "closed"

\* C23: no agent socket is open, with no close requested, while the client
\* socket it was opened for is closed.
C23_NoAgentOutlivesClient ==
    \A c \in Sockets : wsState[c] = "closed" => agentState[c] # "open"

\* a client socket closed after the handshake: the close of its agent
\* socket is requested
C23_Witness ==
    /\ last = Ran("clientClose", "handled")
    /\ \E c \in Sockets : wsState[c] = "closed" /\ agentState[c] = "closing"

\* C24: when the close event of a client socket is handled while the
\* conversation carries a session identifier, that session is afterwards
\* not registered with a non-terminal status and its directory is gone.
C24_DisconnectCleansSession ==
    [][(last'.kind = "clientClose" /\ conversationState.sessionId # 0)
         => LET sid == conversationState.sessionId
            IN  /\ sid \notin disk'
                /\ sid \in DOMAIN activeGenerations'
                     => gens'[activeGenerations'[sid]].status
                           \in TerminalStatuses]_vars

\* the client sockets that are open
OpenClients == { c \in Sockets : wsState[c] = "open" }

\* C25: at most one client socket is open; the connection event of a new
\* client socket leaves the socket that was browserWs not open and makes the
\* new socket browserWs; every message handed to a client socket is handed
\* to browserWs.
C25_SingleClient ==
    [][/\ last'.kind = "connect"
            => /\ browserWs \in Sockets => wsState'[browserWs] # "open"
               /\ OpenClients' = { browserWs' }
       /\ Cardinality(OpenClients') <= 1
       /\ \A i \in 1..Len(sent') :
             sent'[i].to \in 1..ClosedSocket => sent'[i].to = browserWs']_vars

\* the relay sends to the new client socket while the socket of the
\* previous client, closed by the server, has not yet seen its close event
C25_Witness ==
    /\ sent # << >>
    /\ sent[1].to = browserWs
    /\ \E c \in Sockets : c # browserWs /\ wsState[c] = "closing"

\* C26: while a client socket is adopted and open, the conversation state
\* is not changed by a text message that can only come from the agent
\* socket of an earlier connection (the agent socket of the adopted one
\* delivers nothing), nor by the outcome of a generation that the handler
\* of an earlier connection started.
C26_StateBelongsToConnection ==
    [][(browserWs \in Sockets /\ wsState[browserWs] = "open")
         => /\ (last'.kind \in { "assistant", "user" }
                  /\ ~ Delivers(browserWs))
                 => conversationState' = conversationState
            /\ last'.kind = "backend"
                 => \A g \in GenSlots :
                      (/\ gens[g].owner \notin { 0, browserWs }
                       /\ BackendFails(g, "request", FALSE))
                        => conversationState' = conversationState]_vars

\* C27: the process is never terminated by process.exit once it serves
\* clients.
C27_NoRuntimeExit == turn # Exited

\* C28: when the handler of an assistant text gets a specification from
\* extractYamlFromText while the phase is prompt_review, transitioning or
\* code_generation, lastYamlPrompt becomes that specification and the phase
\* stays what it was.
C28_ExtractionKeepsPhase ==
    [][(/\ last'.kind = "assistant"
        /\ conversationState.phase
              \in { "prompt_review", "transitioning", "code_generation" })
         => \A c \in Conns, m \in AssistantMessages :
              LET text == TrackAssistant(conversationState, m).extracted
              IN  (/\ AssistantText(c, m)
                   /\ text # Null
                   /\ Truthy(Extract(text)))
                    => /\ conversationState'.lastYamlPrompt = Extract(text)
                       /\ conversationState'.phase
                             = conversationState.phase]_vars

\* a specification was extracted during review: the phase is unchanged
C28_Witness ==
    /\ last.kind = "assistant"
    /\ last.branch \in { "close", "single" }
    /\ conversationState.phase = "prompt_review"
    /\ Truthy(conversationState.lastYamlPrompt)

\* codeGen.ts:121-175: the events of a session other than codegen-start
\* that startCodeGeneration emits
LaterCodegenEvents ==
    { "codegen-validation-passed", "codegen-error", "codegen-preview-ready",
      "codegen-complete" }

\* C29: the step that handles an approval hands the phase_transition
\* message with the new session identifier to the open client socket and
\* no codegen event; a codegen-start message is handed to a socket only in
\* the step right after the one that handed the phase_transition message of
\* the same session to the same socket; every other codegen event of a
\* session is handed over when its startCodeGeneration call has passed the
\* emit of codegen-start.
C29_TransitionBeforeCodegen ==
    [][/\ (last'.kind = "user" /\ last'.branch = "approved")
            => /\ ClientOpen
                    => sent'[Len(sent')] =
                          Message(browserWs, "phase_transition",
                                  conversationState'.sessionId, "",
                                  "code_generation")
               /\ \A i \in 1..Len(sent') :
                     sent'[i].type \notin
                        LaterCodegenEvents \cup { "codegen-start" }
       /\ \A i \in 1..Len(sent') :
             /\ sent'[i].type = "codegen-start"
                  => /\ sent # << >>
                     /\ sent[Len(sent)] =
                           Message(sent'[i].to, "phase_transition",
                                   sent'[i].sessionId, "", "code_generation")
             /\ sent'[i].type \in LaterCodegenEvents
                  => \E g \in GenSlots :
                        /\ gens[g].sid = sent'[i].sessionId
                        /\ gens[g].ws = sent'[i].to
                        /\ gens[g].pc \in { "entered", "awaiting" }]_vars

\* codegen-start was handed to the client
C29_Witness ==
    /\ last = Ran("start", "entered")
    /\ sent # << >>
    /\ sent[1].type = "codegen-start"
    /\ sent[1].sessionId = conversationState.sessionId

\* C30: when an assistant message that holds a complete fenced block
\* arrives while yamlBuffer is empty and the phase is ideation, the step
\* that handles it sets lastYamlPrompt to the specification
\* extractYamlFromText gives for it and the phase to prompt_review.
C30_CompleteBlockInOneMessage ==
    [][(/\ last'.kind = "assistant"
        /\ conversationState.phase = "ideation"
        /\ ~ Truthy(conversationState.yamlBuffer))
         => \A c \in Conns :
              AssistantText(c, FencedBlock)
                => /\ Truthy(Extract(FencedBlock))
                   /\ conversationState'.lastYamlPrompt = Extract(FencedBlock)
                   /\ conversationState'.phase = "prompt_review"]_vars

\* what codeGen.ts:721-741 does with assistant message m while yamlBuffer
\* holds text, when m may be taken for a closing fragment when it is in closing and
\* for a continuation otherwise: a closing fragment is appended, the
\* buffer is handed to extractYamlFromText and cleared, lastYamlPrompt
\* changes only to what the extraction gave; a continuation without a
\* moving-on phrase is appended and changes neither lastYamlPrompt nor
\* phase
AccumulationStep(closing) ==
    (last'.kind = "assistant" /\ Truthy(conversationState.yamlBuffer))
      => \A c \in Conns, m \in AssistantMessages :
           LET cs == conversationState
               buf == cs.yamlBuffer \o << NL >> \o m
           IN  AssistantText(c, m)
                 => /\ m \in closing
                         => /\ last'.branch = "close"
                            /\ conversationState'.yamlBuffer = Null
                            /\ conversationState'.lastYamlPrompt =
                                  IF Truthy(Extract(buf)) THEN Extract(buf)
                                  ELSE cs.lastYamlPrompt
                    /\ (~ Includes(m, FENCE) /\ ~ IsMovingOn(m))
                         => /\ last'.branch = "append"
                            /\ conversationState' =
                                  [ cs EXCEPT !.yamlBuffer = buf ]

\* the assistant messages that hold a fence
WithFence == { m \in AssistantMessages : Includes(m, FENCE) }

\* the assistant messages that hold a fence and no open marker
WithFenceOnly == { m \in WithFence : ~ Includes(m, OPENMARK) }

\* C31 as stated: while yamlBuffer holds text, every fragment that holds a
\* fence is appended, the buffer is handed to the extraction once and
\* cleared; a fragment without fence and moving-on phrase is appended only.
C31_AccumulationAnyFence == [][AccumulationStep(WithFence)]_vars

\* C31 amended: the same for the fragments that hold a fence and no open
\* marker.
C31_Accumulation == [][AccumulationStep(WithFenceOnly)]_vars

\* a closing fragment ended an accumulation and a specification was
\* extracted from the buffer
C31_Witness ==
    /\ last = Ran("assistant", "close")
    /\ conversationState.yamlBuffer = Null
    /\ Truthy(conversationState.lastYamlPrompt)

\* C32: when the specification handed to startCodeGeneration lacks one of
\* the seven required keys, its validation step fails: the call does not go
\* on to the backend and the session does not become generating.
C32_ValidationRequiresAllKeys ==
    [][(/\ turn.at = "starting"
        /\ last'.kind = "validate"
        /\ \E k \in RequiredKeys :
              ~ Includes(gens[turn.gen].yamlPrompt, Key(k)))
         => /\ last'.branch \in { "failed", "raised" }
            /\ gens'[turn.gen].pc # "awaiting"
            /\ gens'[turn.gen].status # "generating"]_vars

\* C33: a session object whose status is ready, error or cancelled keeps
\* that status for as long as it exists.
C33_TerminalStatusKept ==
    [][\A g \in GenSlots :
         (/\ gens[g].status \in TerminalStatuses
          /\ gens'[g].sid = gens[g].sid)
           => gens'[g].status = gens[g].status]_vars

\* C34: once cancel has returned true for a session whose backend call is
\* still awaited (the session is cancelled, unregistered, its directory
\* gone), no step in which nothing raises puts the directory of that
\* session back on disk, as long as the identifier is not registered anew.
C34_CancelledStaysClean ==
    [][\A g \in GenSlots :
         (/\ gens[g].status = "cancelled"
          /\ gens[g].pc = "awaiting"
          /\ gens[g].sid \notin DOMAIN activeGenerations
          /\ gens[g].sid \notin DOMAIN activeGenerations'
          /\ gens[g].sid \notin disk
          /\ last'.branch # "raised")
           => gens[g].sid \notin disk']_vars

\* C35: the handler of a text message of an agent socket has no effect on
\* the conversation state after a later text message of that socket was
\* handled: when the last step handled a text message while the generation
\* call that the handler of an earlier message of the same socket made is
\* awaited, the end of that call leaves the conversation state as the later
\* message left it.
C35_EffectsInArrivalOrder ==
    [][(last.kind \in { "assistant", "user" } /\ last'.kind = "backend")
         => \A g \in GenSlots :
              (/\ gens[g].owner \in Conns
               /\ gens[g].pc = "awaiting"
               /\ gens'[g].pc # "awaiting")
                => conversationState' = conversationState]_vars

\* C36: while a client socket is adopted and open, the close event of the
\* agent socket of another connection leaves it open, and a frame or text
\* that can only come from the agent socket of another connection (the
\* agent socket of the adopted one delivers nothing) hands nothing to it.
C36_OnlyOwnAgent ==
    [][(browserWs \in Sockets /\ wsState[browserWs] = "open")
         => /\ last'.kind = "agentClose"
                 => \A c \in Sockets \ { browserWs } :
                      AgentClose(c) => wsState'[browserWs] = "open"
            /\ (last'.kind \in { "agentFrame", "assistant", "user" }
                  /\ ~ Delivers(browserWs))
                 => sent' = << >>]_vars

\* codeGen.ts:154, 167, 190 and 148: the events that report the end of a
\* session
TerminalEvents == { "codegen-complete", "codegen-error", "codegen-cancelled" }

\* C37: the messages one step hands to the client hold at most one terminal
\* event of a session.
C37_OneTerminalEvent ==
    \A i, j \in 1..Len(sent) :
        (/\ i < j
         /\ sent[i].type \in TerminalEvents
         /\ sent[j].type \in TerminalEvents)
          => sent[i].sessionId # sent[j].sessionId

\* C38: lastYamlPrompt holds a specification exactly when the phase is not
\* ideation.
C38_SpecIffNotIdeation ==
    Truthy(conversationState.lastYamlPrompt)
      <=> conversationState.phase # "ideation"

\* a generation has failed while another call is awaited: the state was
\* rolled back to ideation without a specification
C38_Witness ==
    /\ last = Ran("backend", "failure")
    /\ conversationState.phase = "ideation"
    /\ ~ Truthy(conversationState.lastYamlPrompt)
    /\ \E g \in GenSlots : gens[g].pc = "awaiting"

\* the backend call of some session with identifier sid is still running
CallInFlight(sid) ==
    \E g \in GenSlots :
        gens[g].sid = sid /\ gens[g].pc \in { "entered", "awaiting" }

\* C39: every directory on disk whose session has no backend call running
\* belongs to a registered session.
C39_NoOrphanedArtifacts ==
    \A sid \in disk : ~ CallInFlight(sid) => sid \in DOMAIN activeGenerations

\* C40: the step that handles an assistant message which becomes yamlBuffer
\* or is appended to it (the opening message, a continuation, the message
\* with the closing fence, a message with a moving-on phrase) hands nothing
\* to the client.
C40_BufferedNotForwarded ==
    [][(/\ last'.kind = "assistant"
        /\ last'.branch \in { "open", "close", "append", "force" })
         => sent' = << >>]_vars

====
